---- MODULE Spec2Model ----
(***************************************************************************)
(* Model of src/server.py: the tool get_china_bond_curve and the report    *)
(* builder format_bond_curve_data.                                         *)
(*                                                                         *)
(* Text is modelled as a sequence of one-character strings, so that        *)
(* formatting (strftime, the f-string of the correlation key, str of an    *)
(* int) is computed and not assumed.  Labels are written in ASCII: the     *)
(* suffix "Y" stands for the source's year character and "M" for its month *)
(* character, DATE for the date column and CURVE for the curve-name column. *)
(* A Python dict is a sequence of [key, value] records in insertion order. *)
(* A DataFrame is [columns, rows]: columns is the sequence of maturity     *)
(* columns, and each row carries its index label, its curve name, its date *)
(* and the values v[c] of the maturity columns.                            *)
(* Yields are integers (percent); every observation is numeric (no NaN).   *)
(***************************************************************************)
EXTENDS Integers, Sequences, FiniteSets, TLC

VARIABLES
    pc,                   \* "idle", "entry", "try", "retrieved", "returned", "raised"
    bond_curve_name,      \* argument
    term_list,            \* argument ([type "str", text] or [type "list", value]),
                          \* then the local it is rebound to
    start_date,           \* argument, then the local it is rebound to
    end_date,             \* argument, then the local it is rebound to
    retrieval,            \* what ak.bond_china_yield did: "none", "raised", "table"
    bond_china_yield_df,  \* the table the retrieval returned
    formatCalled,         \* whether format_bond_curve_data was entered in this call
    bond_yield_curve,     \* the table handed to format_bond_curve_data
    result,               \* the value returned to the caller
    exception             \* the exception that left the call, "" if none

vars == <<pc, bond_curve_name, term_list, start_date, end_date, retrieval,
          bond_china_yield_df, formatCalled, bond_yield_curve, result, exception>>

-----------------------------------------------------------------------------
(* Bounds of the model *)

\* longest term_list a caller passes
MaxTerms == 3

\* most rows the retrieval returns
MaxRows == 3

-----------------------------------------------------------------------------
(* Names *)

CurveGov == "ChinaBond government bond yield curve"
CurveMTN == "ChinaBond medium/short-term note yield curve (AAA)"
CurveBank == "ChinaBond commercial bank bond yield curve (AAA)"
CurveOther == "some other curve"

CurveNames == {CurveGov, CurveMTN, CurveBank}

T3M == <<"3", "M">>
T6M == <<"6", "M">>
T1Y == <<"1", "Y">>
T3Y == <<"3", "Y">>
T5Y == <<"5", "Y">>
T7Y == <<"7", "Y">>
T10Y == <<"1", "0", "Y">>
T30Y == <<"3", "0", "Y">>
T2Y == <<"2", "Y">>

TermNames == {T3M, T6M, T1Y, T3Y, T5Y, T7Y, T10Y, T30Y}

-----------------------------------------------------------------------------
(* Generic helpers *)

Range(s) == {s[i] : i \in 1..Len(s)}

Count(x, s) == Cardinality({i \in 1..Len(s) : s[i] = x})

RECURSIVE Pow10(_)
Pow10(k) == IF k = 0 THEN 1 ELSE 10 * Pow10(k - 1)

Digit(n) == <<"0", "1", "2", "3", "4", "5", "6", "7", "8", "9">>[n + 1]

\* n written with exactly w digits, zero padded
Pad(n, w) == [i \in 1..w |-> Digit((n \div Pow10(w - i)) % 10)]

\* str(n) of a non-negative int
RECURSIVE Str(_)
Str(n) == IF n < 10 THEN <<Digit(n)>> ELSE Str(n \div 10) \o <<Digit(n % 10)>>

\* a / b rounded to the nearest integer, a >= 0, b > 0
RoundDiv(a, b) == (2 * a + b) \div (2 * b)

\* the largest k in lo..hi with k * k <= n (lo * lo <= n)
RECURSIVE ISqrtIn(_, _, _)
ISqrtIn(n, lo, hi) ==
    IF lo = hi THEN lo
    ELSE LET mid == (lo + hi + 1) \div 2
         IN IF mid * mid <= n THEN ISqrtIn(n, mid, hi) ELSE ISqrtIn(n, lo, mid - 1)

ISqrt(n) == ISqrtIn(n, 0, 46340)

\* a Python dict as a sequence of [key, value] in insertion order
DictSet(d, k, v) ==
    IF \E i \in 1..Len(d) : d[i].key = k
    THEN [i \in 1..Len(d) |-> IF d[i].key = k THEN [key |-> k, value |-> v] ELSE d[i]]
    ELSE Append(d, [key |-> k, value |-> v])

Keys(d) == [i \in 1..Len(d) |-> d[i].key]

DictGet(d, k) == (CHOOSE e \in Range(d) : e.key = k).value

\* the outcome of a computation that may raise
Raise(exc) == [raised |-> TRUE, exc |-> exc]
Return(v) == [raised |-> FALSE, value |-> v]

-----------------------------------------------------------------------------
(* Dates *)

DateLess(a, b) ==
    \/ a.year < b.year
    \/ a.year = b.year /\ a.month < b.month
    \/ a.year = b.year /\ a.month = b.month /\ a.day < b.day

\* astype("datetime64[ns]") of a calendar date: midnight of that day
AsDatetime(d) ==
    [year |-> d.year, month |-> d.month, day |-> d.day,
     hour |-> 0, minute |-> 0, second |-> 0]

\* strftime("%Y-%m-%d")
StrftimeDashed(d) ==
    Pad(d.year, 4) \o <<"-">> \o Pad(d.month, 2) \o <<"-">> \o Pad(d.day, 2)

\* strftime("%Y%m%d")
StrftimeCompact(d) == Pad(d.year, 4) \o Pad(d.month, 2) \o Pad(d.day, 2)

-----------------------------------------------------------------------------
(* format_bond_curve_data *)

\* bond_yield_curve["DATE"].min() / .max(): the earliest / latest date of the rows
MinDate(df) ==
    CHOOSE d \in {r.date : r \in Range(df.rows)} :
        \A r \in Range(df.rows) : ~DateLess(r.date, d)

MaxDate(df) ==
    CHOOSE d \in {r.date : r \in Range(df.rows)} :
        \A r \in Range(df.rows) : ~DateLess(d, r.date)

\* values = series_df[term]: the column, in row order
Column(df, term) == [k \in 1..Len(df.rows) |-> df.rows[k].v[term]]

RECURSIVE SeqSum(_)
SeqSum(s) == IF Len(s) = 0 THEN 0 ELSE s[1] + SeqSum(Tail(s))

SeqMax(col) == CHOOSE x \in Range(col) : \A y \in Range(col) : y <= x

SeqMin(col) == CHOOSE x \in Range(col) : \A y \in Range(col) : x <= y

\* the k-th smallest value of the column
Kth(col, k) ==
    CHOOSE x \in Range(col) :
        /\ Cardinality({i \in 1..Len(col) : col[i] <= x}) >= k
        /\ Cardinality({i \in 1..Len(col) : col[i] < x}) < k

\* the row position of the first occurrence of value x
FirstPos(col, x) ==
    CHOOSE k \in 1..Len(col) : col[k] = x /\ \A j \in 1..(k - 1) : col[j] # x

LastPos(col, x) ==
    CHOOSE k \in 1..Len(col) : col[k] = x /\ \A j \in (k + 1)..Len(col) : col[j] # x

\* values.idxmax(): the index LABEL of the first row holding the maximum
idxmax_last(df, term) ==
    df.rows[LastPos(Column(df, term), SeqMax(Column(df, term)))].index

idxmax(df, term) ==
    df.rows[FirstPos(Column(df, term), SeqMax(Column(df, term)))].index

\* values.idxmin(): the index LABEL of the first row holding the minimum
idxmin(df, term) ==
    df.rows[FirstPos(Column(df, term), SeqMin(Column(df, term)))].index

\* series_df.loc[label, "date_str"]: date_str of the row carrying that label
loc_date_str(df, label) ==
    StrftimeCompact((CHOOSE r \in Range(df.rows) : r.index = label).date)

\* one {"date": ..., "yield": ...} per row, in iterrows order
daily_data_drop_last(df, term) ==
    [k \in 1..(Len(df.rows) - 1) |->
        [date |-> StrftimeCompact(df.rows[k].date), yield |-> df.rows[k].v[term]]]

daily_data(df, term) ==
    [k \in 1..Len(df.rows) |->
        [date |-> StrftimeCompact(df.rows[k].date), yield |-> df.rows[k].v[term]]]

\* round(mean, 4), in units of 1e-4
Mean(col) == RoundDiv(SeqSum(col) * 10000, Len(col))

\* round(median, 4), in units of 1e-4
Median(col) ==
    LET n == Len(col)
    IN IF n % 2 = 1 THEN Kth(col, (n + 1) \div 2) * 10000
       ELSE (Kth(col, n \div 2) + Kth(col, n \div 2 + 1)) * 5000

\* n * sum(x^2) - sum(x)^2 = n^2 * population variance
Dispersion(col) ==
    Len(col) * SeqSum([k \in 1..Len(col) |-> col[k] * col[k]]) - SeqSum(col) * SeqSum(col)

\* round(var(ddof=0), 6), in units of 1e-6
Variance(col) == RoundDiv(Dispersion(col) * 1000000, Len(col) * Len(col))

\* round(std(ddof=0), 4), in units of 1e-4: round(10^4 * sqrt(Dispersion) / n)
StdDev(col) ==
    LET n == Len(col)
        big == Dispersion(col) * 100000000
        s == ISqrt(big)
        twice == IF s * s + s + 1 <= big THEN 2 * s + 1 ELSE 2 * s
    IN (twice + n) \div (2 * n)

\* round(quantile(num/4), 4) with linear interpolation, in units of 1e-4
Quantile(col, num) ==
    LET n == Len(col)
        lo == (num * (n - 1)) \div 4
        fr == (num * (n - 1)) % 4
    IN IF fr = 0 THEN Kth(col, lo + 1) * 10000
       ELSE Kth(col, lo + 1) * 10000 + fr * (Kth(col, lo + 2) - Kth(col, lo + 1)) * 2500

Statistics(df, term) ==
    LET values == Column(df, term)
    IN [max |-> [value |-> SeqMax(values), date |-> loc_date_str(df, idxmax(df, term))],
        min |-> [value |-> SeqMin(values), date |-> loc_date_str(df, idxmin(df, term))],
        mean |-> Mean(values),
        median |-> Median(values),
        variance |-> Variance(values),
        std_dev |-> StdDev(values),
        quantiles |-> [q1 |-> Quantile(values, 1), q3 |-> Quantile(values, 3)]]

\* result["series"][term] = {"daily_data": ..., "statistics": ...}
SeriesEntryNoStatistics(df, term) == [daily_data |-> daily_data(df, term)]

SeriesEntry(df, term) ==
    [daily_data |-> daily_data(df, term), statistics |-> Statistics(df, term)]

\* for term in terms: ...   A column name that occurs twice makes series_df[term]
\* a DataFrame and float(values.max()) raise TypeError.
RECURSIVE SeriesLoop(_, _, _, _)
SeriesLoop(df, terms, i, series) ==
    IF i > Len(terms) THEN Return(series)
    ELSE IF Count(terms[i], terms) > 1 THEN Raise("TypeError")
    ELSE SeriesLoop(df, terms, i + 1, DictSet(series, terms[i], SeriesEntry(df, terms[i])))

\* corr_matrix.iloc[i, j]: Pearson coefficient of two columns rounded to 3 places,
\* in units of 1e-3; NaN when a column is constant (or there is one row)
Corr(df, a, b) ==
    LET x == Column(df, a)
        y == Column(df, b)
        n == Len(x)
        cov == n * SeqSum([k \in 1..n |-> x[k] * y[k]]) - SeqSum(x) * SeqSum(y)
        d == Dispersion(x) * Dispersion(y)
        twice == ISqrt((4000000 * cov * cov) \div d)
    IN IF d = 0 THEN [nan |-> TRUE, milli |-> 0]
       ELSE [nan |-> FALSE,
             milli |-> IF cov < 0 THEN 0 - ((twice + 1) \div 2) ELSE (twice + 1) \div 2]

\* key = f"{terms[i]}_{terms[j]}"
CorrKey(a, b) == a \o <<"_">> \o b

\* range(i + 1, len(terms)) starts at i + 1
InnerStartSelf(i) == i

InnerStart(i) == i + 1

\* for i in range(len(terms)): for j in range(i + 1, len(terms)): ...
RECURSIVE CorrLoop(_, _, _, _, _)
CorrLoop(df, terms, i, j, corr) ==
    IF i > Len(terms) THEN corr
    ELSE IF j > Len(terms) THEN CorrLoop(df, terms, i + 1, InnerStart(i + 1), corr)
    ELSE CorrLoop(df, terms, i, j + 1,
                  DictSet(corr, CorrKey(terms[i], terms[j]), Corr(df, terms[i], terms[j])))

\* if len(terms) > 1:
AnalysisFromOne(terms) == Len(terms) >= 1

HasAnalysis(terms) == Len(terms) > 1

format_bond_curve_data(curve_name, df) ==
    IF Len(df.rows) = 0
    THEN Raise("ValueError")        \* min() of no dates is NaT, NaT.strftime raises
    ELSE LET metadata == [curve_name |-> curve_name,
                          time_range |-> <<StrftimeDashed(MinDate(df)),
                                           StrftimeDashed(MaxDate(df))>>,
                          currency |-> "CNY"]
             terms == df.columns
             series == SeriesLoop(df, terms, 1, <<>>)
         IN IF series.raised THEN series
            ELSE IF HasAnalysis(terms)
            THEN Return([metadata |-> metadata,
                         series |-> series.value,
                         analysis |-> [correlation |->
                                          CorrLoop(df, terms, 1, InnerStart(1), <<>>)]])
            ELSE Return([metadata |-> metadata, series |-> series.value])

-----------------------------------------------------------------------------
(* get_china_bond_curve *)

NoTable == [columns |-> <<>>, rows |-> <<>>]

NoValue == [pending |-> TRUE]

\* assert bond_curve_name in [...]
CurveNameOk(name) == name \in CurveNames

\* if isinstance(term_list, str): term_list = [term_list]
NormalizeTermList(tl) ==
    IF tl.type = "str" THEN [type |-> "list", value |-> <<tl.text>>] ELSE tl

\* for term in term_list: assert term in [...]
TermsOk(terms) == \A i \in 1..Len(terms) : terms[i] \in TermNames

\* if bond_curve_name == CurveMTN: assert "30Y" not in term_list
CombinationUnchecked(name, terms) == TRUE

CombinationOk(name, terms) == name = CurveMTN => T30Y \notin Range(terms)

\* if isinstance(d, int): d = str(d)
NormalizeDate(d) ==
    IF d.type = "int" THEN [type |-> "str", value |-> Str(d.number)] ELSE d

\* bond_china_yield_df.empty
NeverEmpty(df) == FALSE

IsEmpty(df) == Len(df.rows) = 0

\* bond_china_yield_df[bond_china_yield_df["CURVE"] == bond_curve_name].copy():
\* the rows of that curve, each keeping its index label
FilterCurve(df, name) ==
    [columns |-> df.columns,
     rows |-> SelectSeq(df.rows, LAMBDA r : r.curve = name)]

\* bond_yield_curve[["DATE"] + term_list]: KeyError when a label is no column;
\* a label listed twice gives the column twice
SelectColumnsPresent(df, terms) ==
    LET kept == SelectSeq(terms, LAMBDA t : t \in Range(df.columns))
    IN Return([columns |-> kept,
               rows |-> [k \in 1..Len(df.rows) |->
                           [df.rows[k] EXCEPT !.v = [c \in Range(kept) |-> df.rows[k].v[c]]]]])

SelectColumns(df, terms) ==
    IF \E i \in 1..Len(terms) : terms[i] \notin Range(df.columns)
    THEN Raise("KeyError")
    ELSE Return([columns |-> terms,
                 rows |-> [k \in 1..Len(df.rows) |->
                             [df.rows[k] EXCEPT !.v = [c \in Range(terms) |-> df.rows[k].v[c]]]]])

\* bond_yield_curve["DATE"] = bond_yield_curve["DATE"].astype("datetime64[ns]")
AstypeDate(df) ==
    [columns |-> df.columns,
     rows |-> [k \in 1..Len(df.rows) |-> [df.rows[k] EXCEPT !.date = AsDatetime(@)]]]

\* return {"error": f"No data available for the specified date range: ..."}
NoDataError(sd, ed) ==
    [error |-> [text |-> "No data available for the specified date range: ",
                start |-> sd.value, to |-> ed.value]]

\* except Exception as e: return {"error": f"Failed to retrieve data: {str(e)}"}
FailedError(exc) == [error |-> [text |-> "Failed to retrieve data: ", exc |-> exc]]

\* The try block after the retrieval returned df: what is returned, whether
\* format_bond_curve_data was entered, and the table handed to it.
TryBody(df, name, terms, sd, ed) ==
    IF IsEmpty(df)
    THEN [result |-> NoDataError(sd, ed), format |-> FALSE, handed |-> NoTable]
    ELSE LET sel == SelectColumns(FilterCurve(df, name), terms)
         IN IF sel.raised
            THEN [result |-> FailedError(sel.exc), format |-> FALSE, handed |-> NoTable]
            ELSE LET curve == AstypeDate(sel.value)
                     out == format_bond_curve_data(name, curve)
                 IN [result |-> IF out.raised THEN FailedError(out.exc) ELSE out.value,
                     format |-> TRUE,
                     handed |-> curve]

-----------------------------------------------------------------------------
(* Inputs *)

ListsUpTo(S, n) == UNION {[1..k -> S] : k \in 0..n}

CurveChoices == CurveNames \cup {CurveOther}

TermChoices == {T3Y, T10Y, T30Y, T2Y}

TermListChoices ==
    {[type |-> "str", text |-> t] : t \in TermChoices}
        \cup {[type |-> "list", value |-> l] : l \in ListsUpTo(TermChoices, MaxTerms)}

StartDateChoices ==
    {[type |-> "int", number |-> 20250101], [type |-> "str", value |-> Str(20250101)]}

EndDateChoices == {[type |-> "str", value |-> Str(20250105)]}

\* the curves whose rows the retrieval returns
RowCurves == {CurveGov, CurveMTN}

\* the date of the k-th row: ascending, one day per row, across a year end
RowDate(k) ==
    IF k = 1 THEN [year |-> 2024, month |-> 12, day |-> 31]
    ELSE [year |-> 2025, month |-> 1, day |-> k - 1]

\* The table ak.bond_china_yield returns: sorted by date, index 0..n-1.
MakeTable(cols, f) ==
    [columns |-> cols,
     rows |-> [k \in 1..Len(f) |->
                 [index |-> k - 1, curve |-> f[k].curve, date |-> RowDate(k), v |-> f[k].v]]]

TablesOver(cols, vals) ==
    {MakeTable(cols, f) : f \in ListsUpTo([curve : RowCurves, v : [Range(cols) -> vals]], MaxRows)}

\* tables with every requested column, and tables that lack the 30Y column
BoundaryTables == TablesOver(<<T3Y, T10Y, T30Y>>, {1}) \cup TablesOver(<<T3Y, T10Y>>, {1})

\* tables whose values vary, for valid requests of the government curve
CoreTables == TablesOver(<<T3Y, T10Y>>, {1, 2})

CoreTermListChoices ==
    {[type |-> "str", text |-> T10Y], [type |-> "list", value |-> <<T3Y, T10Y>>]}

-----------------------------------------------------------------------------
(* Actions *)

Init ==
    /\ pc = "idle"
    /\ bond_curve_name = ""
    /\ term_list = [type |-> "list", value |-> <<>>]
    /\ start_date = [type |-> "str", value |-> <<>>]
    /\ end_date = [type |-> "str", value |-> <<>>]
    /\ retrieval = "none"
    /\ bond_china_yield_df = NoTable
    /\ formatCalled = FALSE
    /\ bond_yield_curve = NoTable
    /\ result = NoValue
    /\ exception = ""

\* a caller invokes the tool
Call(name, tl, sd, ed) ==
    /\ pc = "idle"
    /\ pc' = "entry"
    /\ bond_curve_name' = name
    /\ term_list' = tl
    /\ start_date' = sd
    /\ end_date' = ed
    /\ UNCHANGED <<retrieval, bond_china_yield_df, formatCalled, bond_yield_curve,
                   result, exception>>

Invoke ==
    \E name \in CurveChoices, tl \in TermListChoices,
       sd \in StartDateChoices, ed \in EndDateChoices : Call(name, tl, sd, ed)

InvokeCore ==
    \E tl \in CoreTermListChoices, sd \in StartDateChoices, ed \in EndDateChoices :
        Call(CurveGov, tl, sd, ed)

\* the assertions and normalisations before the try block
Validate ==
    /\ pc = "entry"
    /\ LET tl == NormalizeTermList(term_list)
       IN IF /\ CurveNameOk(bond_curve_name)
             /\ TermsOk(tl.value)
             /\ CombinationOk(bond_curve_name, tl.value)
          THEN /\ pc' = "try"
               /\ term_list' = tl
               /\ start_date' = NormalizeDate(start_date)
               /\ end_date' = NormalizeDate(end_date)
               /\ UNCHANGED exception
          ELSE /\ pc' = "raised"
               /\ exception' = "AssertionError"
               /\ term_list' = IF CurveNameOk(bond_curve_name) THEN tl ELSE term_list
               /\ UNCHANGED <<start_date, end_date>>
    /\ UNCHANGED <<bond_curve_name, retrieval, bond_china_yield_df, formatCalled,
                   bond_yield_curve, result>>

\* ak.bond_china_yield(start_date=..., end_date=...): it raises, and the except
\* clause returns the error report, or it returns a table
RetrieveFrom(tables) ==
    /\ pc = "try"
    /\ \/ /\ retrieval' = "raised"
          /\ result' = FailedError("ConnectionError")
          /\ pc' = "returned"
          /\ UNCHANGED bond_china_yield_df
       \/ \E df \in tables :
             /\ retrieval' = "table"
             /\ bond_china_yield_df' = df
             /\ pc' = "retrieved"
             /\ UNCHANGED result
    /\ UNCHANGED <<bond_curve_name, term_list, start_date, end_date, formatCalled,
                   bond_yield_curve, exception>>

Retrieve == RetrieveFrom(BoundaryTables)

RetrieveCore == RetrieveFrom(CoreTables)

\* the rest of the try block, and its except clause
Process ==
    /\ pc = "retrieved"
    /\ LET out == TryBody(bond_china_yield_df, bond_curve_name, term_list.value,
                          start_date, end_date)
       IN /\ result' = out.result
          /\ formatCalled' = out.format
          /\ bond_yield_curve' = out.handed
    /\ pc' = "returned"
    /\ UNCHANGED <<bond_curve_name, term_list, start_date, end_date, retrieval,
                   bond_china_yield_df, exception>>

\* the call is over; the tool keeps nothing between calls
Finish ==
    /\ pc \in {"returned", "raised"}
    /\ pc' = "idle"
    /\ bond_curve_name' = ""
    /\ term_list' = [type |-> "list", value |-> <<>>]
    /\ start_date' = [type |-> "str", value |-> <<>>]
    /\ end_date' = [type |-> "str", value |-> <<>>]
    /\ retrieval' = "none"
    /\ bond_china_yield_df' = NoTable
    /\ formatCalled' = FALSE
    /\ bond_yield_curve' = NoTable
    /\ result' = NoValue
    /\ exception' = ""

Next == Invoke \/ Validate \/ Retrieve \/ Process \/ Finish

Spec == Init /\ [][Next]_vars

NextCore == InvokeCore \/ Validate \/ RetrieveCore \/ Process \/ Finish

SpecCore == Init /\ [][NextCore]_vars

-----------------------------------------------------------------------------
(* Vocabulary of the properties *)

Returned == pc = "returned"

\* the maturities the caller asked for, in the order given
Requested == IF term_list.type = "str" THEN <<term_list.text>> ELSE term_list.value

IsErrorReport(r) == DOMAIN r = {"error"}

IsReport(r) == "error" \notin DOMAIN r /\ {"metadata", "series"} \subseteq DOMAIN r

IsCompleteReport(r) ==
    /\ IsReport(r)
    /\ DOMAIN r \subseteq {"metadata", "series", "analysis"}
    /\ \A i \in 1..Len(Requested) :
          \E e \in Range(r.series) :
             e.key = Requested[i] /\ {"daily_data", "statistics"} \subseteq DOMAIN e.value

\* an unknown curve name, an unknown maturity label, or the MTN curve with 30Y
InvalidRequest ==
    \/ bond_curve_name \notin {CurveGov, CurveMTN, CurveBank}
    \/ \E i \in 1..Len(Requested) : Requested[i] \notin TermNames
    \/ bond_curve_name = CurveMTN /\ \E i \in 1..Len(Requested) : Requested[i] = T30Y

\* the rows of the retrieved table that belong to the requested curve, in table order
CurveRows == SelectSeq(bond_china_yield_df.rows, LAMBDA r : r.curve = bond_curve_name)

-----------------------------------------------------------------------------
(* Properties *)

\* C1: no exception ever escapes get_china_bond_curve; every call ends by
\* returning a value.  Refuted: the assertions stand before the try block.
C1_NoExceptionEscapes == pc # "raised" /\ exception = ""

\* C2: every returned value is either the flat error report (only the key "error")
\* or a complete report: no "error" key, "metadata" and "series" present, and a
\* series entry with "daily_data" and "statistics" for every requested maturity.
C2_ErrorOrCompleteReport ==
    Returned => (IsErrorReport(result) \/ IsCompleteReport(result))

C2_Witness ==
    /\ Returned
    /\ IsCompleteReport(result)
    /\ Len(Requested) = 3
    /\ "analysis" \in DOMAIN result

\* C3: a call with an unknown curve name, an unknown maturity label or the MTN
\* curve with 30Y halts before the retrieval and before format_bond_curve_data,
\* and returns no value at all (so no report built from substituted defaults).
C3_InvalidRequestHaltsFirst ==
    (pc # "idle" /\ InvalidRequest) =>
        /\ pc \in {"entry", "raised"}
        /\ retrieval = "none"
        /\ ~formatCalled
        /\ DOMAIN result = {"pending"}

C3_Witness ==
    /\ pc = "raised"
    /\ bond_curve_name = CurveMTN
    /\ \A i \in 1..Len(Requested) : Requested[i] \in TermNames
    /\ T30Y \in Range(Requested)
    /\ retrieval = "none"

\* C4: a success report has the key "analysis" exactly when more than one
\* maturity was requested, and then "analysis" contains "correlation".
C4_AnalysisIffSeveral ==
    (Returned /\ IsReport(result)) =>
        /\ ("analysis" \in DOMAIN result) <=> (Len(Requested) > 1)
        /\ ("analysis" \in DOMAIN result) => ("correlation" \in DOMAIN result.analysis)

C4_Witness ==
    /\ Returned
    /\ IsReport(result)
    /\ Len(Requested) = 1
    /\ "analysis" \notin DOMAIN result

\* C5: for n >= 2 requested maturities m, the keys of analysis.correlation are
\* exactly the n*(n-1)/2 texts m[i] "_" m[j] with i < j, inserted in lexicographic
\* (i, j) order, with no reversed pair, no duplicate and no self pair.
C5_CorrelationKeys ==
    (Returned /\ IsReport(result) /\ Len(Requested) >= 2) =>
        /\ "analysis" \in DOMAIN result
        /\ LET m == Requested
               n == Len(m)
               keys == Keys(result.analysis.correlation)
               P == {ij \in (1..n) \X (1..n) : ij[1] < ij[2]}
               K(ij) == m[ij[1]] \o <<"_">> \o m[ij[2]]
           IN /\ Range(keys) = {K(ij) : ij \in P}
              /\ Len(keys) = (n * (n - 1)) \div 2
              /\ \A p, q \in 1..Len(keys) : p # q => keys[p] # keys[q]
              /\ \A p, q \in 1..Len(keys) :
                    p < q => \E a, b \in P :
                                /\ keys[p] = K(a)
                                /\ keys[q] = K(b)
                                /\ (a[1] < b[1] \/ (a[1] = b[1] /\ a[2] < b[2]))
              /\ \A ij \in P : m[ij[2]] \o <<"_">> \o m[ij[1]] \notin Range(keys)
              /\ \A x \in TermNames : x \o <<"_">> \o x \notin Range(keys)

C5_Witness ==
    /\ Returned
    /\ IsReport(result)
    /\ Len(Requested) = 3
    /\ Len(result.analysis.correlation) = 3

\* C6: for every maturity of a success report, statistics.max.value is the
\* largest value of the column and statistics.max.date the YYYYMMDD date of the
\* first row, in table order, holding it; likewise min with the smallest value.
C6_ExtremaFirstOccurrence ==
    (Returned /\ IsReport(result)) =>
        \A e \in Range(result.series) :
            LET col == [k \in 1..Len(CurveRows) |-> CurveRows[k].v[e.key]]
                st == e.value.statistics
            IN /\ \A k \in 1..Len(col) : col[k] <= st.max.value /\ st.min.value <= col[k]
               /\ \E k \in 1..Len(col) :
                    /\ col[k] = st.max.value
                    /\ \A j \in 1..(k - 1) : col[j] < st.max.value
                    /\ st.max.date = StrftimeCompact(CurveRows[k].date)
               /\ \E k \in 1..Len(col) :
                    /\ col[k] = st.min.value
                    /\ \A j \in 1..(k - 1) : col[j] > st.min.value
                    /\ st.min.date = StrftimeCompact(CurveRows[k].date)

\* a tie for the maximum between rows whose index labels are 0 and 2
C6_Witness ==
    /\ Returned
    /\ IsReport(result)
    /\ Len(CurveRows) = 2
    /\ CurveRows[1].index = 0
    /\ CurveRows[2].index = 2
    /\ CurveRows[1].v[T10Y] = 2
    /\ CurveRows[2].v[T10Y] = 2
    /\ DictGet(result.series, T10Y).statistics.max.date = StrftimeCompact(CurveRows[1].date)
    /\ DictGet(result.series, T10Y).statistics.min.date = StrftimeCompact(CurveRows[1].date)

\* C7: for a table of N rows, daily_data of every requested maturity has N
\* entries and its k-th entry pairs the k-th row's date with its value.
C7_DailyDataFollowsRows ==
    (Returned /\ IsReport(result)) =>
        /\ \A i \in 1..Len(Requested) : \E e \in Range(result.series) : e.key = Requested[i]
        /\ \A e \in Range(result.series) :
              /\ Len(e.value.daily_data) = Len(CurveRows)
              /\ \A k \in 1..Len(CurveRows) :
                    e.value.daily_data[k] =
                        [date |-> StrftimeCompact(CurveRows[k].date),
                         yield |-> CurveRows[k].v[e.key]]

C7_Witness ==
    /\ Returned
    /\ IsReport(result)
    /\ Len(Requested) = 2
    /\ Len(CurveRows) = 3
    /\ CurveRows[1].v[T3Y] # CurveRows[2].v[T3Y]
    /\ Len(DictGet(result.series, T3Y).daily_data) = 3

\* C8: when the retrieval returns a table with no rows, the call returns the
\* error report, without "series" or "metadata", and format_bond_curve_data is
\* not entered.
C8_EmptyRetrievalIsError ==
    (Returned /\ retrieval = "table" /\ Len(bond_china_yield_df.rows) = 0) =>
        /\ IsErrorReport(result)
        /\ "series" \notin DOMAIN result
        /\ "metadata" \notin DOMAIN result
        /\ ~formatCalled

C8_Witness ==
    /\ Returned
    /\ retrieval = "table"
    /\ Len(bond_china_yield_df.rows) = 0
    /\ "error" \in DOMAIN result

\* C9: when the retrieval returned rows but none of the requested curve, or the
\* table lacks a requested maturity column, the call returns the error report
\* and never a success report.
C9_EmptyOrIncompleteTableIsError ==
    (/\ Returned
     /\ retrieval = "table"
     /\ Len(bond_china_yield_df.rows) > 0
     /\ \/ Len(CurveRows) = 0
        \/ \E i \in 1..Len(Requested) : Requested[i] \notin Range(bond_china_yield_df.columns))
        => (IsErrorReport(result) /\ "series" \notin DOMAIN result)

\* rows were retrieved, none of the requested curve, and the builder was entered
C9_Witness ==
    /\ Returned
    /\ retrieval = "table"
    /\ Len(bond_china_yield_df.rows) > 0
    /\ Len(CurveRows) = 0
    /\ formatCalled
    /\ Len(bond_yield_curve.rows) = 0
    /\ IsErrorReport(result)

\* C10: the maturity sequence that reaches format_bond_curve_data holds no label
\* twice.  Refuted: a term_list that repeats a label is passed on as it is.
C10_DistinctTermsReachFormat ==
    formatCalled =>
        \A i, j \in 1..Len(bond_yield_curve.columns) :
            i # j => bond_yield_curve.columns[i] # bond_yield_curve.columns[j]

====
